---- MODULE Spec2Model ----
(***************************************************************************)
(* Shortest-path core of vasa (src/src/dijkstra.rs): the min-heap order of *)
(* State, dijkstra, invert_adjecency_list, dijkstra_step and               *)
(* dijkstra_bidir with its nested check_stop.                              *)
(*                                                                         *)
(* A graph is a function from node ids 0..NumNodes-1 to sequences of edges *)
(* (Vec<Vec<Edge>>), a BinaryHeap<State> is a bag of State records whose   *)
(* pop takes the greatest element under State::cmp, Option<usize> is the   *)
(* empty sequence (None) or a one-element sequence (Some).                 *)
(***************************************************************************)
EXTENDS Naturals, Integers, Sequences, FiniteSets, Bags, TLC

\* Bounds of the explored inputs.
NumNodes == 3
MaxEdges == 3
MaxCost == 2

\* usize::MAX, the "no distance yet" sentinel; usize is modelled at 30 bits
\* (no cost of the bounded inputs comes near it).
USIZE_MAX == 1073741823

Nodes == 0 .. (NumNodes - 1)

\* Vec::len of a vector indexed from 0
VecLen(v) == Cardinality(DOMAIN v)

None == << >>
Some(v) == << v >>

\* struct Edge { node, cost }
Edge(n, c) == [node |-> n, cost |-> c]

\* struct State { cost, position }
State(c, p) == [cost |-> c, position |-> p]

----------------------------------------------------------------------------
\* Ord for usize
UsizeCmp(a, b) == IF a < b THEN "Less" ELSE IF a = b THEN "Equal" ELSE "Greater"

\* Variant of State::cmp: the costs are not flipped (a max-heap on cost).
StateCmpMaxHeap(self, other) ==
    LET byCost == UsizeCmp(self.cost, other.cost)
    IN  IF byCost # "Equal" THEN byCost
        ELSE UsizeCmp(self.position, other.position)

\* Variant of State::cmp: the positions are flipped as well as the costs.
StateCmpFlipBoth(self, other) ==
    LET byCost == UsizeCmp(other.cost, self.cost)
    IN  IF byCost # "Equal" THEN byCost
        ELSE UsizeCmp(other.position, self.position)

\* impl Ord for State: other.cost.cmp(&self.cost)
\*                        .then_with(|| self.position.cmp(&other.position))
StateCmp(self, other) ==
    LET byCost == UsizeCmp(other.cost, self.cost)
    IN  IF byCost # "Equal" THEN byCost
        ELSE UsizeCmp(self.position, other.position)

\* BinaryHeap::new()
HeapNew == EmptyBag

\* BinaryHeap::is_empty
HeapIsEmpty(h) == BagToSet(h) = {}

\* BinaryHeap::push
HeapPush(h, x) == h (+) SetToBag({x})

\* BinaryHeap::peek: the greatest element under Ord (the heap is a max-heap)
HeapPeek(h) ==
    CHOOSE x \in BagToSet(h) : \A y \in BagToSet(h) : StateCmp(x, y) # "Less"

\* BinaryHeap::pop: the heap left after the greatest element is taken out
HeapPopRest(h) == h (-) SetToBag({HeapPeek(h)})

----------------------------------------------------------------------------
\* (0..adj_list.len()).map(|_| usize::MAX).collect(), then dist[start] = 0
InitDist(len, root) ==
    [n \in 0 .. (len - 1) |-> IF n = root THEN 0 ELSE USIZE_MAX]

\* State { cost: 0, position: start }
InitState(root) == State(0, root)

\* dijkstra: if position == goal
IsGoal(position, goal) == position = goal

\* dijkstra: if cost > dist[position] { continue; }
IsStale(cost, d) == cost > d

\* Variant of the relaxation test: only a node without a distance is relaxed.
ImprovesUnknownOnly(cost, d) == cost < d /\ d = USIZE_MAX

\* dijkstra: if next.cost < dist[next.position]
Improves(cost, d) == cost < d

\* dijkstra: for edge in &adj_list[position] { ... }, from the k-th edge on
RECURSIVE dijkstra_relax(_, _, _, _, _)
dijkstra_relax(edges, k, cost, dist, heap) ==
    IF k > Len(edges) THEN [dist |-> dist, heap |-> heap]
    ELSE LET next == State(cost + edges[k].cost, edges[k].node)
         IN  IF Improves(next.cost, dist[next.position])
             THEN dijkstra_relax(edges, k + 1, cost,
                                 [dist EXCEPT ![next.position] = next.cost],
                                 HeapPush(heap, next))
             ELSE dijkstra_relax(edges, k + 1, cost, dist, heap)

\* dijkstra: one evaluation of `while let Some(..) = heap.pop()` and its body.
\* done: the function returned; ret: the value returned.
dijkstra_iter(adj, goal, dist, heap) ==
    IF HeapIsEmpty(heap)
    THEN [done |-> TRUE, ret |-> None, dist |-> dist, heap |-> heap,
          popped |-> None]
    ELSE LET top  == HeapPeek(heap)
             rest == HeapPopRest(heap)
         IN  IF IsGoal(top.position, goal)
             THEN [done |-> TRUE, ret |-> Some(top.cost), dist |-> dist,
                   heap |-> rest, popped |-> Some(top)]
             ELSE IF IsStale(top.cost, dist[top.position])
             THEN [done |-> FALSE, ret |-> None, dist |-> dist,
                   heap |-> rest, popped |-> Some(top)]
             ELSE LET r == dijkstra_relax(adj[top.position], 1, top.cost,
                                          dist, rest)
                  IN  [done |-> FALSE, ret |-> None, dist |-> r.dist,
                       heap |-> r.heap, popped |-> Some(top)]

\* dijkstra: the loop run to its return
RECURSIVE dijkstra_loop(_, _, _, _)
dijkstra_loop(adj, goal, dist, heap) ==
    LET it == dijkstra_iter(adj, goal, dist, heap)
    IN  IF it.done THEN it.ret
        ELSE dijkstra_loop(adj, goal, it.dist, it.heap)

\* pub fn dijkstra(adj_list, start, goal) -> Option<usize>
dijkstra(adj, s, g) ==
    dijkstra_loop(adj, g, InitDist(VecLen(adj), s),
                  HeapPush(HeapNew, InitState(s)))

----------------------------------------------------------------------------
\* invert_adjecency_list: `for _ in 0..len { inverted.push(Vec::new()) }`
EmptyAdj(len) == [n \in 0 .. (len - 1) |-> << >>]

\* Variant of the pushed edge: the target is kept instead of set to the source.
InvertedEdgeKeepsTarget(i, edge) == Edge(edge.node, edge.cost)

\* invert_adjecency_list: inverted[*node].push(Edge { node: i, cost: *cost })
InvertedEdge(i, edge) == Edge(i, edge.cost)

\* Variant of the loops: an edge already in the target's list is not pushed.
RECURSIVE invert_from_merging(_, _, _, _)
invert_from_merging(adj, i, k, inverted) ==
    IF i >= VecLen(adj) THEN inverted
    ELSE IF k > Len(adj[i]) THEN invert_from_merging(adj, i + 1, 1, inverted)
    ELSE IF \E j \in 1 .. Len(inverted[adj[i][k].node]) :
                inverted[adj[i][k].node][j] = Edge(i, adj[i][k].cost)
    THEN invert_from_merging(adj, i, k + 1, inverted)
    ELSE invert_from_merging(adj, i, k + 1,
             [inverted EXCEPT ![adj[i][k].node] =
                                  Append(@, Edge(i, adj[i][k].cost))])

\* Variant of the loops: the flipped edge is put in front of the target's list.
RECURSIVE invert_from_prepending(_, _, _, _)
invert_from_prepending(adj, i, k, inverted) ==
    IF i >= VecLen(adj) THEN inverted
    ELSE IF k > Len(adj[i])
    THEN invert_from_prepending(adj, i + 1, 1, inverted)
    ELSE invert_from_prepending(adj, i, k + 1,
             [inverted EXCEPT ![adj[i][k].node] =
                                  << InvertedEdge(i, adj[i][k]) >> \o @])

\* invert_adjecency_list: the two nested loops, from edge k of list i on
RECURSIVE invert_from(_, _, _, _)
invert_from(adj, i, k, inverted) ==
    IF i >= VecLen(adj) THEN inverted
    ELSE IF k > Len(adj[i]) THEN invert_from(adj, i + 1, 1, inverted)
    ELSE invert_from(adj, i, k + 1,
             [inverted EXCEPT ![adj[i][k].node] =
                                  Append(@, InvertedEdge(i, adj[i][k]))])

\* Variant of invert_adjecency_list: the graph is returned as it is.
invert_not_flipped(adj) == adj

\* fn invert_adjecency_list(adj_list) -> Vec<Vec<Edge>>
invert_adjecency_list(adj) == invert_from(adj, 0, 1, EmptyAdj(VecLen(adj)))

----------------------------------------------------------------------------
\* Variant of the step's goal test: no popped node counts as the goal.
StepNeverGoal(position, goal) == FALSE

\* dijkstra_step: if position == goal
StepIsGoal(position, goal) == position = goal

\* Variant of the step's relaxation test: an equal distance is relaxed too.
StepImprovesOrEqual(cost, d) == cost <= d

\* Variant of the step's relaxation test: any other distance is replaced.
StepImprovesIfDifferent(cost, d) == cost # d

\* dijkstra_step: if cost < dist[edge.node]
StepImproves(cost, d) == cost < d

\* dijkstra_step: for edge in &adj_list[position] { ... }, from the k-th edge on
RECURSIVE step_relax(_, _, _, _, _)
step_relax(edges, k, cost, dist, heap) ==
    IF k > Len(edges) THEN [dist |-> dist, heap |-> heap]
    ELSE LET c == cost + edges[k].cost
         IN  IF StepImproves(c, dist[edges[k].node])
             THEN step_relax(edges, k + 1, cost,
                             [dist EXCEPT ![edges[k].node] = c],
                             HeapPush(heap, State(c, edges[k].node)))
             ELSE step_relax(edges, k + 1, cost, dist, heap)

\* Variant of dijkstra_step: the goal test comes after the relaxation.
dijkstra_step_goal_late(adj, goal, heap, dist) ==
    IF HeapIsEmpty(heap)
    THEN [ret |-> None, dist |-> dist, heap |-> heap, popped |-> None]
    ELSE LET top  == HeapPeek(heap)
             rest == HeapPopRest(heap)
             r    == step_relax(adj[top.position], 1, top.cost, dist, rest)
         IN  [ret |-> IF StepIsGoal(top.position, goal)
                      THEN Some(top.cost) ELSE None,
              dist |-> r.dist, heap |-> r.heap, popped |-> Some(top)]

\* fn dijkstra_step(adj_list, goal, heap, dist) -> Option<usize>
\* (no comparison of the popped cost with dist[position] is made here)
dijkstra_step(adj, goal, heap, dist) ==
    IF HeapIsEmpty(heap)
    THEN [ret |-> None, dist |-> dist, heap |-> heap, popped |-> None]
    ELSE LET top  == HeapPeek(heap)
             rest == HeapPopRest(heap)
         IN  IF StepIsGoal(top.position, goal)
             THEN [ret |-> Some(top.cost), dist |-> dist, heap |-> rest,
                   popped |-> Some(top)]
             ELSE LET r == step_relax(adj[top.position], 1, top.cost,
                                      dist, rest)
                  IN  [ret |-> None, dist |-> r.dist, heap |-> r.heap,
                       popped |-> Some(top)]

\* check_stop: if dist_f[i] == usize::MAX || dist_b[i] == usize::MAX { continue; }
Unknown(df, db) == df = USIZE_MAX \/ db = USIZE_MAX

\* Variant of the bound test: the backward frontier's minimum is left out.
WithinBoundForwardOnly(df, db, cost_f, cost_b) == df + db <= cost_f

\* check_stop: if dist_f[i] + dist_b[i] <= cost_f + cost_b
WithinBound(df, db, cost_f, cost_b) == df + db <= cost_f + cost_b

\* check_stop: for i in 0..dist_f.len() { ... }, from index i on
RECURSIVE check_stop_from(_, _, _, _, _)
check_stop_from(i, dist_f, dist_b, cost_f, cost_b) ==
    IF i >= VecLen(dist_f) THEN None
    ELSE IF Unknown(dist_f[i], dist_b[i])
    THEN check_stop_from(i + 1, dist_f, dist_b, cost_f, cost_b)
    ELSE IF WithinBound(dist_f[i], dist_b[i], cost_f, cost_b)
    THEN Some(dist_f[i] + dist_b[i])
    ELSE check_stop_from(i + 1, dist_f, dist_b, cost_f, cost_b)

\* fn check_stop(dist_f, dist_b, prio_f, prio_b) -> Option<usize>
check_stop(dist_f, dist_b, prio_f, prio_b) ==
    IF HeapIsEmpty(prio_f) THEN None
    ELSE IF HeapIsEmpty(prio_b) THEN None
    ELSE check_stop_from(0, dist_f, dist_b,
                         HeapPeek(prio_f).cost, HeapPeek(prio_b).cost)

\* Variant of the loop condition: the loop is never left through it.
WhileAlways(prio_f, prio_b) == TRUE

\* dijkstra_bidir: while !prio_b.is_empty() || !prio_b.is_empty()
WhileCond(prio_f, prio_b) == ~HeapIsEmpty(prio_b) \/ ~HeapIsEmpty(prio_b)

----------------------------------------------------------------------------
\* The inputs: every graph of NumNodes nodes with at most MaxEdges edges in all,
\* targets in range and costs in 0..MaxCost; adjacency lists in every order,
\* self-loops and parallel edges included.
EdgeSet == [node : Nodes, cost : 0 .. MaxCost]

EdgeLists == UNION {[1 .. k -> Nodes \X EdgeSet] : k \in 0 .. MaxEdges}

BuildAdj(el) ==
    [n \in Nodes |->
        LET own == SelectSeq(el, LAMBDA p : p[1] = n)
        IN  [i \in 1 .. Len(own) |-> own[i][2]]]

Graphs == {BuildAdj(el) : el \in EdgeLists}

VARIABLES
    adj_list, start, goal,      \* the arguments of dijkstra and dijkstra_bidir
    mid,                        \* a third node, for the calls through it
    pc,                         \* where the caller and the search are
    dist, heap, popped, d_res,  \* dijkstra: locals and returned value
    adj_list_inv, dist_f, dist_b, prio_f, prio_b,   \* dijkstra_bidir: locals
    step_popped,                \* dijkstra_step: the State its pop bound
    b_res, b_from,              \* dijkstra_bidir: returned value and return site
    inv2,                       \* invert_adjecency_list applied twice
    tri,                        \* dijkstra(s,t), dijkstra(s,m), dijkstra(m,t)
    fifo,                       \* a BoundedFIFO: b, its capacity, h, t
    fifo_ret,                   \* the last call on it and what it returned
    fifo_ref,                   \* the elements pushed and not yet popped
    ll,                         \* a LinkedList: items, freed, head, tail
    ll_ret,                     \* the last call on it and what it returned
    ll_ref,                     \* the sequence the list stands for
    settled                     \* per search direction, the nodes popped so
                                \* far with a cost equal to their table entry

vars == << adj_list, start, goal, mid, pc, dist, heap, popped, d_res,
           adj_list_inv, dist_f, dist_b, prio_f, prio_b, step_popped,
           b_res, b_from, inv2, tri, fifo, fifo_ret, fifo_ref,
           ll, ll_ret, ll_ref, settled >>

inputVars == << adj_list, start, goal, mid >>
dijkstraVars == << dist, heap, popped, d_res >>
bidirVars == << adj_list_inv, dist_f, dist_b, prio_f, prio_b, step_popped,
                b_res, b_from >>
pureVars == << inv2, tri >>
fifoVars == << fifo, fifo_ret, fifo_ref >>
listVars == << ll, ll_ret, ll_ref >>
containerVars == << fifoVars, listVars >>

\* The nodes settled in direction k after a step that popped `pop` while
\* the distance table was `table`.
Settle(k, pop, table) ==
    IF pop # None /\ pop[1].cost = table[pop[1].position]
    THEN [settled EXCEPT ![k] = @ \cup {pop[1].position}]
    ELSE settled

NoDist == [n \in Nodes |-> USIZE_MAX]

\* Nothing called yet: the locals of the searches do not exist.
Blank ==
    /\ dist = NoDist /\ heap = HeapNew /\ popped = None /\ d_res = None
    /\ adj_list_inv = EmptyAdj(NumNodes) /\ dist_f = NoDist /\ dist_b = NoDist
    /\ prio_f = HeapNew /\ prio_b = HeapNew /\ step_popped = None
    /\ b_res = None /\ b_from = "none"
    /\ inv2 = EmptyAdj(NumNodes) /\ tri = << >>
    /\ settled = [d |-> {}, f |-> {}, b |-> {}]

\* Pointer::null()
Null == USIZE_MAX

\* LinkedList::new()
ll_new == [items |-> << >>, freed |-> << >>, head |-> Null, tail |-> Null]

NoListRet == [op |-> "none", arg |-> Null, ptr |-> Null, val |-> None,
              panicked |-> FALSE]

NoListRef == [seq |-> << >>, n |-> 0, ops |-> {}, snap |-> << >>,
              yielded |-> << >>]

\* No container made yet.
NoFifoRet == [op |-> "none", val |-> None, panicked |-> FALSE]

NoContainers ==
    /\ fifo = [b |-> << >>, cap |-> 0, h |-> 0, t |-> 0]
    /\ fifo_ret = NoFifoRet
    /\ fifo_ref = [q |-> << >>, n |-> 0, legit |-> TRUE, cap0 |-> 0]
    /\ ll = ll_new
    /\ ll_ret = NoListRet
    /\ ll_ref = NoListRef

Init ==
    /\ adj_list \in Graphs
    /\ start \in Nodes
    /\ goal \in Nodes
    /\ mid = start
    /\ pc = "d_call"
    /\ Blank
    /\ NoContainers

\* dijkstra, lines 47-53: dist, heap, dist[start] = 0, heap.push(State{0, start})
DijkstraEnter ==
    /\ pc = "d_call"
    /\ dist' = InitDist(VecLen(adj_list), start)
    /\ heap' = HeapPush(HeapNew, InitState(start))
    /\ pc' = "d_loop"
    /\ UNCHANGED << inputVars, popped, d_res, bidirVars, pureVars >>
    /\ UNCHANGED << containerVars, settled >>

\* dijkstra, lines 56-78: one turn of the while-let loop, or the return
DijkstraLoop ==
    /\ pc = "d_loop"
    /\ LET it == dijkstra_iter(adj_list, goal, dist, heap)
       IN  /\ dist' = it.dist
           /\ heap' = it.heap
           /\ popped' = it.popped
           /\ settled' = Settle("d", it.popped, dist)
           /\ d_res' = it.ret
           /\ pc' = IF it.done THEN "b_call" ELSE "d_loop"
    /\ UNCHANGED << inputVars, bidirVars, pureVars >>
    /\ UNCHANGED containerVars

\* dijkstra_bidir, lines 107-120
BidirEnter ==
    /\ pc = "b_call"
    /\ adj_list_inv' = invert_adjecency_list(adj_list)
    /\ dist_f' = InitDist(VecLen(adj_list), start)
    /\ dist_b' = InitDist(VecLen(adj_list), goal)
    /\ prio_f' = HeapPush(HeapNew, InitState(start))
    /\ prio_b' = HeapPush(HeapNew, InitState(goal))
    /\ pc' = "b_while"
    /\ UNCHANGED << inputVars, dijkstraVars, step_popped, b_res, b_from,
                    pureVars >>
    /\ UNCHANGED << containerVars, settled >>

\* dijkstra_bidir, line 148 and line 167: the loop condition, None when it fails
BidirWhile ==
    /\ pc = "b_while"
    /\ IF WhileCond(prio_f, prio_b)
       THEN pc' = "b_fwd" /\ UNCHANGED << b_res, b_from >>
       ELSE pc' = "done" /\ b_res' = None /\ b_from' = "loop_end"
    /\ UNCHANGED << inputVars, dijkstraVars, adj_list_inv, dist_f, dist_b,
                    prio_f, prio_b, step_popped, pureVars >>
    /\ UNCHANGED << containerVars, settled >>

\* dijkstra_bidir, lines 151-153: the forward step
BidirForward ==
    /\ pc = "b_fwd"
    /\ LET st == dijkstra_step(adj_list, goal, prio_f, dist_f)
       IN  /\ prio_f' = st.heap
           /\ dist_f' = st.dist
           /\ step_popped' = st.popped
           /\ settled' = Settle("f", st.popped, dist_f)
           /\ IF st.ret # None
              THEN pc' = "done" /\ b_res' = st.ret /\ b_from' = "step_f"
              ELSE pc' = "b_chk1" /\ UNCHANGED << b_res, b_from >>
    /\ UNCHANGED << inputVars, dijkstraVars, adj_list_inv, dist_b, prio_b,
                    pureVars >>
    /\ UNCHANGED containerVars

\* Variant of the check after the forward step: the backward step follows
\* whatever check_stop would say.
BidirCheck1Skipped ==
    /\ pc = "b_chk1"
    /\ pc' = "b_bwd"
    /\ UNCHANGED << inputVars, dijkstraVars, bidirVars, pureVars >>
    /\ UNCHANGED << containerVars, settled >>

\* dijkstra_bidir, lines 154-156: the check after the forward step
BidirCheck1 ==
    /\ pc = "b_chk1"
    /\ LET res == check_stop(dist_f, dist_b, prio_f, prio_b)
       IN  IF res # None
           THEN pc' = "done" /\ b_res' = res /\ b_from' = "check_f"
           ELSE pc' = "b_bwd" /\ UNCHANGED << b_res, b_from >>
    /\ UNCHANGED << inputVars, dijkstraVars, adj_list_inv, dist_f, dist_b,
                    prio_f, prio_b, step_popped, pureVars >>
    /\ UNCHANGED << containerVars, settled >>

\* dijkstra_bidir, lines 159-161: the backward step
BidirBackward ==
    /\ pc = "b_bwd"
    /\ LET st == dijkstra_step(adj_list_inv, start, prio_b, dist_b)
       IN  /\ prio_b' = st.heap
           /\ dist_b' = st.dist
           /\ step_popped' = st.popped
           /\ settled' = Settle("b", st.popped, dist_b)
           /\ IF st.ret # None
              THEN pc' = "done" /\ b_res' = st.ret /\ b_from' = "step_b"
              ELSE pc' = "b_chk2" /\ UNCHANGED << b_res, b_from >>
    /\ UNCHANGED << inputVars, dijkstraVars, adj_list_inv, dist_f, prio_f,
                    pureVars >>
    /\ UNCHANGED containerVars

\* dijkstra_bidir, lines 162-164: the check after the backward step
BidirCheck2 ==
    /\ pc = "b_chk2"
    /\ LET res == check_stop(dist_f, dist_b, prio_f, prio_b)
       IN  IF res # None
           THEN pc' = "done" /\ b_res' = res /\ b_from' = "check_b"
           ELSE pc' = "b_while" /\ UNCHANGED << b_res, b_from >>
    /\ UNCHANGED << inputVars, dijkstraVars, adj_list_inv, dist_f, dist_b,
                    prio_f, prio_b, step_popped, pureVars >>
    /\ UNCHANGED << containerVars, settled >>

Next ==
    \/ DijkstraEnter
    \/ DijkstraLoop
    \/ BidirEnter
    \/ BidirWhile
    \/ BidirForward
    \/ BidirCheck1
    \/ BidirBackward
    \/ BidirCheck2

Spec == Init /\ [][Next]_vars

----------------------------------------------------------------------------
\* The pure functions applied to every input.

InitInv ==
    /\ adj_list \in Graphs
    /\ start = 0 /\ goal = 0 /\ mid = 0
    /\ pc = "i_call"
    /\ Blank
    /\ NoContainers

\* invert_adjecency_list(&graph)
Invert ==
    /\ pc = "i_call"
    /\ adj_list_inv' = invert_adjecency_list(adj_list)
    /\ pc' = "i_once"
    /\ UNCHANGED << inputVars, dijkstraVars, dist_f, dist_b, prio_f, prio_b,
                    step_popped, b_res, b_from, pureVars >>
    /\ UNCHANGED << containerVars, settled >>

\* invert_adjecency_list applied to its own result
InvertAgain ==
    /\ pc = "i_once"
    /\ inv2' = invert_adjecency_list(adj_list_inv)
    /\ pc' = "i_twice"
    /\ UNCHANGED << inputVars, dijkstraVars, bidirVars, tri >>
    /\ UNCHANGED << containerVars, settled >>

NextInv == Invert \/ InvertAgain

SpecInv == InitInv /\ [][NextInv]_vars

InitTri ==
    /\ adj_list \in Graphs
    /\ start \in Nodes /\ goal \in Nodes /\ mid \in Nodes
    /\ pc = "t_call"
    /\ Blank
    /\ NoContainers

\* dijkstra(g, s, t), dijkstra(g, s, m), dijkstra(g, m, t)
Triangle ==
    /\ pc = "t_call"
    /\ tri' = << dijkstra(adj_list, start, goal),
                 dijkstra(adj_list, start, mid),
                 dijkstra(adj_list, mid, goal) >>
    /\ pc' = "t_done"
    /\ UNCHANGED << inputVars, dijkstraVars, bidirVars, inv2 >>
    /\ UNCHANGED << containerVars, settled >>

NextTri == Triangle

SpecTri == InitTri /\ [][NextTri]_vars

----------------------------------------------------------------------------
\* Reference: the least total weight of a directed path, taken over the walks
\* of at most len - 1 edges (with weights >= 0 a shortest walk is a
\* simple path).
RECURSIVE Walks(_, _, _)
Walks(adj, W, k) ==
    IF k = 0 THEN W
    ELSE Walks(adj,
               W \cup UNION {{<< adj[p[1]][j].node, p[2] + adj[p[1]][j].cost >> :
                                 j \in 1 .. Len(adj[p[1]])} : p \in W},
               k - 1)

RefShortest(adj, s, t) ==
    LET W == Walks(adj, {<< s, 0 >>}, VecLen(adj) - 1)
        C == {p[2] : p \in {q \in W : q[1] = t}}
    IN  IF C = {} THEN None
        ELSE Some(CHOOSE c \in C : \A d \in C : c <= d)

DijkstraReturned ==
    pc \in {"b_call", "b_while", "b_fwd", "b_chk1", "b_bwd", "b_chk2", "done"}
BidirReturned == pc = "done"


----------------------------------------------------------------------------
\* C1: for every graph with non-negative weights and every pair (start, goal)
\* with goal reachable from start, dijkstra_bidir returns the same value as
\* dijkstra.
C1_BidirEqualsDijkstra ==
    (BidirReturned /\ RefShortest(adj_list, start, goal) # None)
        => b_res = d_res

\* C2: dijkstra returns Some(c) exactly when a directed path from start to
\* goal exists, and c is then the least total weight of such a path.
C2_DijkstraIsShortest ==
    DijkstraReturned => d_res = RefShortest(adj_list, start, goal)

\* C2 witness: dijkstra returned a cost below that of a direct edge
\* start -> goal of the graph (the cheaper path goes through another node).
C2_Witness ==
    /\ DijkstraReturned
    /\ d_res # None
    /\ \E j \in 1 .. Len(adj_list[start]) :
          /\ adj_list[start][j].node = goal
          /\ d_res[1] < adj_list[start][j].cost

\* C3: whenever the termination check of dijkstra_bidir fires, the value it
\* returns is the shortest start -> goal distance.
C3_CheckStopReturnsShortest ==
    (BidirReturned /\ b_from \in {"check_f", "check_b"})
        => b_res = RefShortest(adj_list, start, goal)

\* C4: when no directed path leads from start to goal, dijkstra and
\* dijkstra_bidir both return None.
C4_UnreachableIsNone ==
    /\ (DijkstraReturned /\ RefShortest(adj_list, start, goal) = None)
          => d_res = None
    /\ (BidirReturned /\ RefShortest(adj_list, start, goal) = None)
          => b_res = None

\* C4 witness: both searches returned None although start has outgoing edges
\* and goal has incoming ones.
C4_Witness ==
    /\ BidirReturned
    /\ RefShortest(adj_list, start, goal) = None
    /\ d_res = None /\ b_res = None
    /\ adj_list[start] # << >>
    /\ adj_list_inv[goal] # << >>

\* C5: with start = goal, dijkstra and dijkstra_bidir return Some(0) at the
\* first pop: nothing was relaxed, whatever edges the graph has.
C5_StartIsGoal ==
    /\ (DijkstraReturned /\ start = goal)
          => (d_res = Some(0) /\ dist = InitDist(VecLen(adj_list), start) /\ HeapIsEmpty(heap))
    /\ (BidirReturned /\ start = goal)
          => (/\ b_res = Some(0)
              /\ b_from = "step_f"
              /\ dist_f = InitDist(VecLen(adj_list), start)
              /\ HeapIsEmpty(prio_f)
              /\ dist_b = InitDist(VecLen(adj_list), goal)
              /\ prio_b = HeapPush(HeapNew, InitState(goal)))

\* C5 witness: both searches returned for start = goal on a node with a
\* self-loop and an edge to another node.
C5_Witness ==
    /\ BidirReturned
    /\ start = goal
    /\ \E j \in 1 .. Len(adj_list[start]) : adj_list[start][j].node = start
    /\ \E j \in 1 .. Len(adj_list[start]) : adj_list[start][j].node # start


----------------------------------------------------------------------------
\* The entry a pop of heap h takes, and the pops of the three frontiers.
DijkstraPops == pc = "d_loop" /\ ~HeapIsEmpty(heap)
ForwardPops == pc = "b_fwd" /\ ~HeapIsEmpty(prio_f)
BackwardPops == pc = "b_bwd" /\ ~HeapIsEmpty(prio_b)

\* x is least in cost among the entries of h and, among those of its cost,
\* has the smallest node id
LeastThenSmallestId(h, x) ==
    \A e \in BagToSet(h) :
        x.cost < e.cost \/ (x.cost = e.cost /\ x.position <= e.position)

\* x is least in cost among the entries of h and, among those of its cost,
\* has the largest node id
LeastThenLargestId(h, x) ==
    \A e \in BagToSet(h) :
        x.cost < e.cost \/ (x.cost = e.cost /\ x.position >= e.position)

\* C6 as stated: every pop takes an entry of least cost and, among the pending
\* entries of that cost, the one with the smallest node id.
C6_PopSmallestIdOnTie ==
    [][ /\ DijkstraPops => LeastThenSmallestId(heap, popped'[1])
        /\ ForwardPops => LeastThenSmallestId(prio_f, step_popped'[1])
        /\ BackwardPops => LeastThenSmallestId(prio_b, step_popped'[1]) ]_vars

\* C6 amended: every pop takes an entry of least cost and, among the pending
\* entries of that cost, the one with the largest node id.
C6_PopLargestIdOnTie ==
    [][ /\ DijkstraPops => LeastThenLargestId(heap, popped'[1])
        /\ ForwardPops => LeastThenLargestId(prio_f, step_popped'[1])
        /\ BackwardPops => LeastThenLargestId(prio_b, step_popped'[1]) ]_vars

\* C6 witness: dijkstra popped a node without outgoing edges (so the pop
\* pushed nothing) while an entry of the same cost and a smaller node id was
\* pending, and is still pending.
C6_Witness ==
    /\ pc = "d_loop"
    /\ popped # None
    /\ adj_list[popped[1].position] = << >>
    /\ \E e \in BagToSet(heap) :
          e.cost = popped[1].cost /\ e.position < popped[1].position

\* C7: a popped entry whose cost is greater than the distance-table value of
\* its node changes nothing but the frontier it was popped from: no distance
\* is updated and no entry is pushed, in dijkstra and in both directions of
\* dijkstra_bidir.
C7_StalePopRelaxesNothing ==
    [][ /\ (DijkstraPops /\ HeapPeek(heap).cost > dist[HeapPeek(heap).position])
              => (dist' = dist /\ heap' = HeapPopRest(heap))
        /\ (ForwardPops
               /\ HeapPeek(prio_f).cost > dist_f[HeapPeek(prio_f).position])
              => (dist_f' = dist_f /\ prio_f' = HeapPopRest(prio_f))
        /\ (BackwardPops
               /\ HeapPeek(prio_b).cost > dist_b[HeapPeek(prio_b).position])
              => (dist_b' = dist_b /\ prio_b' = HeapPopRest(prio_b)) ]_vars

\* C7 witness: a step of dijkstra_bidir popped an entry dearer than the
\* distance-table value of its node, and that node has outgoing edges in the
\* graph the step ran on.
C7_Witness ==
    \/ /\ pc = "b_chk1"
       /\ step_popped # None
       /\ step_popped[1].cost > dist_f[step_popped[1].position]
       /\ adj_list[step_popped[1].position] # << >>
    \/ /\ pc = "b_chk2"
       /\ step_popped # None
       /\ step_popped[1].cost > dist_b[step_popped[1].position]
       /\ adj_list_inv[step_popped[1].position] # << >>

----------------------------------------------------------------------------
\* How often edge e is in the list l
Copies(l, e) == Cardinality({j \in 1 .. Len(l) : l[j] = e})

\* The edges of all lists of a graph
EdgesOf(g) == UNION {{g[n][j] : j \in 1 .. Len(g[n])} : n \in Nodes}

\* C8: invert_adjecency_list returns a graph of the same node count whose
\* edges are the input's edges flipped, each as often as in the input: u -> v
\* of cost c is in the input k times iff v -> u of cost c is in the result k
\* times.
C8_InvertFlipsEveryEdge ==
    pc \in {"i_once", "i_twice"} =>
        /\ DOMAIN adj_list_inv = DOMAIN adj_list
        /\ \A u \in Nodes, v \in Nodes, c \in 0 .. MaxCost :
              Copies(adj_list_inv[v], Edge(u, c)) = Copies(adj_list[u], Edge(v, c))
        /\ EdgesOf(adj_list_inv) \subseteq EdgeSet

\* C8 witness: a graph with two parallel edges u -> v and a third edge was
\* inverted.
C8_Witness ==
    /\ pc = "i_once"
    /\ \E u \in Nodes, e \in EdgeSet :
          /\ Copies(adj_list[u], e) = 2
          /\ e.node # u
          /\ Copies(adj_list_inv[e.node], Edge(u, e.cost)) = 2
    /\ Cardinality(EdgesOf(adj_list)) >= 2

\* C9: inverting twice gives the graph back up to the order of the adjacency
\* lists: every node has the same edges, each as often, as before.
C9_InvertTwice ==
    pc = "i_twice" =>
        \A u \in Nodes, e \in EdgeSet :
            Copies(inv2[u], e) = Copies(adj_list[u], e)

\* C9 witness: a graph was inverted twice and one of its lists came back in
\* another order.
C9_Witness ==
    /\ pc = "i_twice"
    /\ \E u \in Nodes : inv2[u] # adj_list[u]

\* C10: when dijkstra(g,s,t), dijkstra(g,s,m) and dijkstra(g,m,t) are all
\* present, dijkstra(g,s,t) <= dijkstra(g,s,m) + dijkstra(g,m,t).
C10_Triangle ==
    (pc = "t_done" /\ tri[1] # None /\ tri[2] # None /\ tri[3] # None)
        => tri[1][1] <= tri[2][1] + tri[3][1]

\* C10 witness: the three distances are present for a node m other than s
\* and t, and the way through m is dearer than the shortest one.
C10_Witness ==
    /\ pc = "t_done"
    /\ mid # start /\ mid # goal /\ start # goal
    /\ tri[1] # None /\ tri[2] # None /\ tri[3] # None
    /\ tri[1][1] < tri[2][1] + tri[3][1]
    /\ tri[1][1] > 0


----------------------------------------------------------------------------
\* tests::test_dijkstra, tests::test_dijkstra_bidir: the graph of the tests
ExampleGraph ==
    [n \in 0 .. 4 |->
        CASE n = 0 -> << Edge(2, 10), Edge(1, 1) >>
          [] n = 1 -> << Edge(3, 2) >>
          [] n = 2 -> << Edge(1, 1), Edge(3, 3), Edge(4, 1) >>
          [] n = 3 -> << Edge(0, 7), Edge(4, 2) >>
          [] n = 4 -> << >>]

\* The two searches on the graph of the tests, for every pair of its nodes.
InitExample ==
    /\ adj_list = ExampleGraph
    /\ start \in DOMAIN ExampleGraph
    /\ goal \in DOMAIN ExampleGraph
    /\ mid = start
    /\ pc = "d_call"
    /\ Blank
    /\ NoContainers

SpecExample == InitExample /\ [][Next]_vars

\* The values asserted by the tests, as (start, goal, value)
ExampleAsserted ==
    { << 0, 1, Some(1) >>, << 0, 3, Some(3) >>, << 3, 0, Some(7) >>,
      << 0, 4, Some(5) >>, << 4, 0, None >> }

\* C11: on the 5-node example graph dijkstra returns 1 for (0,1), 3 for
\* (0,3), 7 for (3,0), 5 for (0,4) and None for (4,0).
C11_ExampleDijkstra ==
    DijkstraReturned =>
        \A a \in ExampleAsserted :
            (start = a[1] /\ goal = a[2]) => d_res = a[3]

\* C11 witness: dijkstra returned 5 for (0,4) on the example graph, after
\* node 2 got the distance 10 over the edge 0 -> 2.
C11_Witness ==
    /\ DijkstraReturned
    /\ adj_list = ExampleGraph /\ start = 0 /\ goal = 4
    /\ d_res = Some(5)
    /\ dist[2] = 10

\* C12: on the 5-node example graph dijkstra_bidir returns 1 for (0,1), 3 for
\* (0,3), 7 for (3,0), 5 for (0,4) and None for (4,0).
C12_ExampleBidir ==
    BidirReturned =>
        \A a \in ExampleAsserted :
            (start = a[1] /\ goal = a[2]) => b_res = a[3]

\* C12 witness: dijkstra_bidir returned 5 for (0,4) on the example graph.
C12_Witness ==
    /\ BidirReturned
    /\ adj_list = ExampleGraph /\ start = 0 /\ goal = 4
    /\ b_res = Some(5)


----------------------------------------------------------------------------
\* BoundedFIFO (src/src/fifo.rs).  b is a sequence (index i of the Vec is
\* b[i + 1]), cap is b.capacity().

\* Bounds of the explored calls.
MaxInitCap == 4
MaxPushes == 5

\* 2^e modulo m
RECURSIVE Pow2Mod(_, _)
Pow2Mod(e, m) == IF e = 0 THEN 1 % m ELSE (2 * Pow2Mod(e - 1, m)) % m

\* (a - b) % m on usize in a build without overflow checks, for a < b:
\* the difference wraps modulo 2^64
WrappingSubMod(a, b, m) == (Pow2Mod(64, m) + m + (a % m) - (b % m)) % m

Max2(a, b) == IF a >= b THEN a ELSE b

\* Vec growth (RawVec::grow_amortized with a minimum of 4 for elements of
\* the size of the tests' i32): the capacity after room for `additional`
\* more elements was made
GrowAmortized(cap, len, additional) ==
    Max2(4, Max2(cap * 2, len + additional))

\* the capacity after Vec::reserve(additional)
VecReserve(cap, len, additional) ==
    IF cap - len >= additional THEN cap
    ELSE GrowAmortized(cap, len, additional)

\* the capacity after Vec::push
VecPushCap(cap, len) == IF len = cap THEN GrowAmortized(cap, len, 1) ELSE cap

\* slice::rotate_left(mid)
RotateLeft(v, m) == SubSeq(v, m + 1, Len(v)) \o SubSeq(v, 1, m)

\* BoundedFIFO::new(n)
fifo_new(n) == [b |-> << >>, cap |-> n, h |-> 0, t |-> 0]

\* BoundedFIFO::is_empty
fifo_is_empty(f) == Len(f.b) = 0

\* BoundedFIFO::push_back, lines 104-113: where the element goes.
\* panicked: rotate_left or the index was out of range.
push_back_store(f, elem) ==
    IF f.t = Len(f.b)
    THEN [f |-> [f EXCEPT !.b = Append(f.b, elem),
                          !.cap = VecPushCap(f.cap, Len(f.b))],
          panicked |-> FALSE]
    ELSE IF f.h = f.t
    THEN IF f.h > Len(f.b)
         THEN [f |-> f, panicked |-> TRUE]
         ELSE [f |-> [b |-> Append(RotateLeft(f.b, f.h), elem),
                      cap |-> VecPushCap(f.cap, Len(f.b)),
                      h |-> 0,
                      t |-> Len(f.b)],
               panicked |-> FALSE]
    ELSE IF f.t >= Len(f.b)
         THEN [f |-> f, panicked |-> TRUE]
         ELSE [f |-> [f EXCEPT !.b[f.t + 1] = elem], panicked |-> FALSE]

\* BoundedFIFO::push_back, lines 114-117: reserve and advance t
push_back_advance(f) ==
    LET g == IF f.t + 1 = f.cap /\ f.h = 0
             THEN [f EXCEPT !.cap = VecReserve(f.cap, Len(f.b), f.cap)]
             ELSE f
    IN  IF g.cap = 0 THEN [f |-> g, panicked |-> TRUE]
        ELSE [f |-> [g EXCEPT !.t = (g.t + 1) % g.cap], panicked |-> FALSE]

\* BoundedFIFO::push_back
fifo_push_back(f, elem) ==
    LET st == push_back_store(f, elem)
    IN  IF st.panicked THEN st ELSE push_back_advance(st.f)

\* BoundedFIFO::pop_front
fifo_pop_front(f) ==
    IF fifo_is_empty(f) THEN [f |-> f, val |-> None, panicked |-> FALSE]
    ELSE IF f.h >= Len(f.b) \/ f.cap = 0
    THEN [f |-> f, val |-> None, panicked |-> TRUE]
    ELSE [f |-> [f EXCEPT !.h = (f.h + 1) % f.cap],
          val |-> Some(f.b[f.h + 1]), panicked |-> FALSE]

\* BoundedFIFO::size: (self.t - self.h) % self.b.capacity().  With t < h the
\* subtraction panics in a build with overflow checks and wraps in one
\* without; `checked` says which build it is.
fifo_size(f, checked) ==
    IF f.cap = 0 THEN [val |-> None, panicked |-> TRUE]
    ELSE IF f.t >= f.h
    THEN [val |-> Some((f.t - f.h) % f.cap), panicked |-> FALSE]
    ELSE IF checked THEN [val |-> None, panicked |-> TRUE]
    ELSE [val |-> Some(WrappingSubMod(f.t, f.h, f.cap)), panicked |-> FALSE]

FifoAlive == pc = "fifo" /\ ~fifo_ret.panicked

InitFifo ==
    /\ adj_list = EmptyAdj(NumNodes)
    /\ start = 0 /\ goal = 0 /\ mid = 0
    /\ pc = "fifo"
    /\ Blank
    /\ \E n \in 0 .. MaxInitCap :
          /\ fifo = fifo_new(n)
          /\ fifo_ref = [q |-> << >>, n |-> 0, legit |-> TRUE, cap0 |-> n]
    /\ fifo_ret = [op |-> "new", val |-> None, panicked |-> FALSE]
    /\ ll = ll_new /\ ll_ret = NoListRet /\ ll_ref = NoListRef

\* fifo.push_back(elem); the elements pushed are 1, 2, 3, ...
PushBack ==
    /\ FifoAlive
    /\ fifo_ref.n < MaxPushes
    /\ LET elem == fifo_ref.n + 1
           r == fifo_push_back(fifo, elem)
       IN  /\ fifo' = r.f
           /\ fifo_ret' = [op |-> "push_back", val |-> None,
                           panicked |-> r.panicked]
           /\ fifo_ref' = [fifo_ref EXCEPT !.q = Append(@, elem), !.n = @ + 1]
    /\ UNCHANGED << inputVars, pc, dijkstraVars, bidirVars, pureVars, settled,
                    listVars >>

\* fifo.pop_front()
PopFront ==
    /\ FifoAlive
    /\ LET r == fifo_pop_front(fifo)
       IN  /\ fifo' = r.f
           /\ fifo_ret' = [op |-> "pop_front", val |-> r.val,
                           panicked |-> r.panicked]
           /\ fifo_ref' = IF fifo_ref.q = << >>
                          THEN [fifo_ref EXCEPT !.legit = FALSE]
                          ELSE [fifo_ref EXCEPT !.q = Tail(@)]
    /\ UNCHANGED << inputVars, pc, dijkstraVars, bidirVars, pureVars, settled,
                    listVars >>

\* fifo.is_empty()
IsEmpty ==
    /\ FifoAlive
    /\ fifo_ret' = [op |-> "is_empty", val |-> Some(fifo_is_empty(fifo)),
                    panicked |-> FALSE]
    /\ UNCHANGED << inputVars, pc, dijkstraVars, bidirVars, pureVars, settled,
                    fifo, fifo_ref, listVars >>

\* fifo.size()
Size ==
    /\ FifoAlive
    /\ \E checked \in BOOLEAN :
          LET r == fifo_size(fifo, checked)
          IN  fifo_ret' = [op |-> "size", val |-> r.val,
                           panicked |-> r.panicked]
    /\ UNCHANGED << inputVars, pc, dijkstraVars, bidirVars, pureVars, settled,
                    fifo, fifo_ref, listVars >>

NextFifo == PushBack \/ PopFront \/ IsEmpty \/ Size

SpecFifo == InitFifo /\ [][NextFifo]_vars


----------------------------------------------------------------------------
\* LinkedList (src/src/linked_list.rs).  items is a sequence (items[p.0] of
\* the Vec is items[p + 1]); a Pointer is its index, Null for Pointer::null().

\* Bound of the explored calls: the number of elements inserted.
MaxInserts == 4

\* Node::new(elem)
NodeNew(elem) == [prev |-> Null, next |-> Null, elem |-> elem]

\* LinkedList::insert: the list with the node stored, and the Pointer to it
ll_insert(l, node) ==
    IF l.freed # << >>
    THEN LET ptr == l.freed[Len(l.freed)]
         IN  [l |-> [l EXCEPT !.freed = SubSeq(@, 1, Len(@) - 1),
                              !.items[ptr + 1] = node],
              ptr |-> ptr]
    ELSE [l |-> [l EXCEPT !.items = Append(@, node)],
          ptr |-> Len(l.items)]

\* variant of insert_after that leaves the old successor's prev as it was
ll_insert_after_no_back_link(l, ptr, elem) ==
    LET next == l.items[ptr + 1].next
        ins == ll_insert(l, [next |-> next, prev |-> ptr, elem |-> elem])
        node == ins.ptr
        l1 == [ins.l EXCEPT !.items[ptr + 1].next = node]
    IN  [l |-> IF next = Null THEN [l1 EXCEPT !.tail = node] ELSE l1,
         ptr |-> node, panicked |-> FALSE]

\* LinkedList::insert_after
ll_insert_after(l, ptr, elem) ==
    LET next == l.items[ptr + 1].next
        ins == ll_insert(l, [next |-> next, prev |-> ptr, elem |-> elem])
        node == ins.ptr
        l1 == [ins.l EXCEPT !.items[ptr + 1].next = node]
    IN  [l |-> IF next = Null THEN [l1 EXCEPT !.tail = node]
               ELSE [l1 EXCEPT !.items[next + 1].prev = node],
         ptr |-> node, panicked |-> FALSE]

\* LinkedList::insert_before
ll_insert_before(l, ptr, elem) ==
    LET prev == l.items[ptr + 1].prev
        ins == ll_insert(l, [next |-> ptr, prev |-> prev, elem |-> elem])
        node == ins.ptr
        l1 == [ins.l EXCEPT !.items[ptr + 1].prev = node]
    IN  [l |-> IF prev = Null THEN [l1 EXCEPT !.head = node]
               ELSE [l1 EXCEPT !.items[prev + 1].next = node],
         ptr |-> node, panicked |-> FALSE]

\* LinkedList::push_back; panicked: the assert! of line 186 failed
ll_push_back(l, elem) ==
    IF l.tail = Null
    THEN IF l.head # Null THEN [l |-> l, ptr |-> Null, panicked |-> TRUE]
         ELSE LET ins == ll_insert(l, NodeNew(elem))
              IN  [l |-> [ins.l EXCEPT !.tail = ins.ptr, !.head = ins.ptr],
                   ptr |-> ins.ptr, panicked |-> FALSE]
    ELSE ll_insert_after(l, l.tail, elem)

\* LinkedList::push_front; panicked: the assert! of line 210 failed
ll_push_front(l, elem) ==
    IF l.head = Null
    THEN IF l.tail # Null THEN [l |-> l, ptr |-> Null, panicked |-> TRUE]
         ELSE ll_push_back(l, elem)
    ELSE ll_insert_before(l, l.head, elem)

\* variant of remove that leaves the successor's prev as it was
ll_remove_keeps_back_link(l, ptr) ==
    LET node == l.items[ptr + 1]
        prev == node.prev
        next == node.next
        l1 == IF prev = Null THEN [l EXCEPT !.head = next]
              ELSE [l EXCEPT !.items[prev + 1].next = next]
        l2 == IF next = Null THEN [l1 EXCEPT !.tail = prev] ELSE l1
    IN  [l |-> [l2 EXCEPT !.freed = Append(@, ptr)], elem |-> node.elem]

\* LinkedList::remove
ll_remove(l, ptr) ==
    LET node == l.items[ptr + 1]
        prev == node.prev
        next == node.next
        l1 == IF prev = Null THEN [l EXCEPT !.head = next]
              ELSE [l EXCEPT !.items[prev + 1].next = next]
        l2 == IF next = Null THEN [l1 EXCEPT !.tail = prev]
              ELSE [l1 EXCEPT !.items[next + 1].prev = prev]
    IN  [l |-> [l2 EXCEPT !.freed = Append(@, ptr)], elem |-> node.elem]

\* variant of Iterator::next that takes the elements from the tail
ll_next_from_tail(l) ==
    IF l.head = Null THEN [l |-> l, val |-> None]
    ELSE LET r == ll_remove(l, l.tail) IN [l |-> r.l, val |-> Some(r.elem)]

\* Iterator::next for LinkedList
ll_next(l) ==
    IF l.head = Null THEN [l |-> l, val |-> None]
    ELSE LET r == ll_remove(l, l.head) IN [l |-> r.l, val |-> Some(r.elem)]

\* The elements met by following next from p, over at most fuel nodes.
RECURSIVE WalkFrom(_, _, _)
WalkFrom(l, p, fuel) ==
    IF p = Null \/ fuel = 0 THEN << >>
    ELSE << l.items[p + 1].elem >> \o WalkFrom(l, l.items[p + 1].next, fuel - 1)

\* One node more than items holds: a cycle shows as a walk that is too long.
Walk(l) == WalkFrom(l, l.head, Len(l.items) + 1)

\* The reference sequence: records [p, e] of the Pointer an insertion
\* returned and the element inserted, in list order.
RefPtrs == { ll_ref.seq[i].p : i \in DOMAIN ll_ref.seq }
RefElems(seq) == [i \in DOMAIN seq |-> seq[i].e]
RefIndex(seq, p) == CHOOSE i \in DOMAIN seq : seq[i].p = p
RefInsertAt(seq, i, x) == SubSeq(seq, 1, i - 1) \o << x >> \o SubSeq(seq, i, Len(seq))
RefRemoveAt(seq, i) == SubSeq(seq, 1, i - 1) \o SubSeq(seq, i + 1, Len(seq))

ListAlive == pc = "list" /\ ~ll_ret.panicked

InitList ==
    /\ adj_list = EmptyAdj(NumNodes)
    /\ start = 0 /\ goal = 0 /\ mid = 0
    /\ pc = "list"
    /\ Blank
    /\ fifo = [b |-> << >>, cap |-> 0, h |-> 0, t |-> 0]
    /\ fifo_ret = NoFifoRet
    /\ fifo_ref = [q |-> << >>, n |-> 0, legit |-> TRUE, cap0 |-> 0]
    /\ ll = ll_new
    /\ ll_ret = [NoListRet EXCEPT !.op = "new"]
    /\ ll_ref = NoListRef

\* What a call that inserted the element ll_ref.n + 1 at place i of the
\* reference leaves behind.
Inserted(op, arg, r, i) ==
    /\ ll' = r.l
    /\ ll_ret' = [op |-> op, arg |-> arg, ptr |-> r.ptr, val |-> None,
                  panicked |-> r.panicked]
    /\ ll_ref' = [ll_ref EXCEPT
                    !.seq = RefInsertAt(@, i, [p |-> r.ptr, e |-> ll_ref.n + 1]),
                    !.n = @ + 1,
                    !.ops = @ \cup {op}]
    /\ UNCHANGED << inputVars, pc, dijkstraVars, bidirVars, pureVars, settled,
                    fifoVars >>

\* ll.push_back(elem); the elements inserted are 1, 2, 3, ...
ListPushBack ==
    /\ ListAlive
    /\ ll_ref.n < MaxInserts
    /\ Inserted("push_back", Null, ll_push_back(ll, ll_ref.n + 1),
                Len(ll_ref.seq) + 1)

\* ll.push_front(elem)
ListPushFront ==
    /\ ListAlive
    /\ ll_ref.n < MaxInserts
    /\ Inserted("push_front", Null, ll_push_front(ll, ll_ref.n + 1), 1)

\* ll.insert_after(p, elem) for a Pointer p to an element of the list
ListInsertAfter ==
    /\ ListAlive
    /\ ll_ref.n < MaxInserts
    /\ \E p \in RefPtrs :
          Inserted("insert_after", p, ll_insert_after(ll, p, ll_ref.n + 1),
                   RefIndex(ll_ref.seq, p) + 1)

\* ll.insert_before(p, elem) for a Pointer p to an element of the list
ListInsertBefore ==
    /\ ListAlive
    /\ ll_ref.n < MaxInserts
    /\ \E p \in RefPtrs :
          Inserted("insert_before", p, ll_insert_before(ll, p, ll_ref.n + 1),
                   RefIndex(ll_ref.seq, p))

\* ll.remove(p) for a Pointer p to an element of the list
ListRemove ==
    /\ ListAlive
    /\ \E p \in RefPtrs :
          LET r == ll_remove(ll, p)
          IN  /\ ll' = r.l
              /\ ll_ret' = [op |-> "remove", arg |-> p, ptr |-> Null,
                            val |-> Some(r.elem), panicked |-> FALSE]
              /\ ll_ref' = [ll_ref EXCEPT
                              !.seq = RefRemoveAt(@, RefIndex(@, p)),
                              !.ops = @ \cup {"remove"}]
    /\ UNCHANGED << inputVars, pc, dijkstraVars, bidirVars, pureVars, settled,
                    fifoVars >>

\* ll.next() of an iteration over the list: the first call starts the
\* iteration, the call that returns None ends it.
ListNext ==
    /\ pc \in {"list", "list_iter"}
    /\ ~ll_ret.panicked
    /\ LET r == ll_next(ll)
       IN  /\ ll' = r.l
           /\ ll_ret' = [op |-> "next", arg |-> Null, ptr |-> Null,
                         val |-> r.val, panicked |-> FALSE]
           /\ ll_ref' = [ll_ref EXCEPT
                           !.seq = IF @ = << >> THEN @ ELSE Tail(@),
                           !.snap = IF pc = "list" THEN Walk(ll) ELSE @,
                           !.yielded = IF pc = "list" THEN r.val
                                       ELSE @ \o r.val]
           /\ pc' = IF r.val = None THEN "list_done" ELSE "list_iter"
    /\ UNCHANGED << inputVars, dijkstraVars, bidirVars, pureVars, settled, fifoVars >>

NextList ==
    \/ ListPushBack
    \/ ListPushFront
    \/ ListInsertAfter
    \/ ListInsertBefore
    \/ ListRemove
    \/ ListNext

SpecList == InitList /\ [][NextList]_vars

----------------------------------------------------------------------------
\* Claims about BoundedFIFO.  fifo_ref.q holds the elements pushed and not
\* yet popped, oldest first; fifo_ref.legit says that pop_front was never
\* called while q was empty; fifo_ref.cap0 is the n given to new.

\* C13: first in, first out.  With an initial capacity of at least 1 and
\* pop_front only ever called while an element is pending, every pop_front
\* returns Some of the oldest pending element.
C13_FirstInFirstOut ==
    [][(PopFront /\ fifo_ref.cap0 >= 1 /\ fifo_ref.legit
            /\ fifo_ref.q # << >>)
        => (~fifo_ret'.panicked /\ fifo_ret'.val = Some(Head(fifo_ref.q)))]_vars

\* C14: is_empty() returns true exactly when no pushed element is pending.
C14_IsEmptyIffNonePending ==
    fifo_ret.op = "is_empty" => fifo_ret.val = Some(fifo_ref.q = << >>)

\* C15: size() returns the number of pending elements and does not panic.
C15_SizeIsPendingCount ==
    fifo_ret.op = "size"
        => (~fifo_ret.panicked /\ fifo_ret.val = Some(Len(fifo_ref.q)))

\* C16: pop_front with no pending element returns None without a panic and
\* leaves buffer, head index and tail index as they were.
C16_PopFrontOnEmpty ==
    [][(PopFront /\ fifo_ref.q = << >>)
        => (/\ ~fifo_ret'.panicked
            /\ fifo_ret'.val = None
            /\ fifo'.b = fifo.b /\ fifo'.h = fifo.h /\ fifo'.t = fifo.t)]_vars


----------------------------------------------------------------------------
\* Claims about LinkedList.  ll_ref.seq is the reference sequence, ll_ref.ops
\* the calls made so far, ll_ref.snap the list's elements when the iteration
\* began and ll_ref.yielded what the iteration has returned so far.

C18_RemoveUnlinks ==
    [][ListRemove =>
        LET p == ll_ret'.arg
        IN  /\ p \in RefPtrs
            /\ ll_ret'.val = Some(ll_ref.seq[RefIndex(ll_ref.seq, p)].e)
            /\ ll'.head # p
            /\ ll'.tail # p
            /\ \A q \in RefPtrs \ {p} :
                  ll'.items[q + 1].prev # p /\ ll'.items[q + 1].next # p
            /\ \E i \in DOMAIN ll'.freed : ll'.freed[i] = p]_vars

\* remove has just taken an element with a neighbour on either side
C18_Witness ==
    /\ ll_ret.op = "remove"
    /\ ll.freed # << >>
    /\ ll.freed[Len(ll.freed)] = ll_ret.arg
    /\ ll.items[ll_ret.arg + 1].prev # Null
    /\ ll.items[ll_ret.arg + 1].next # Null
    /\ Len(ll_ref.seq) >= 2

\* C19: an iteration yields the list's elements from head to tail, each
\* once, then None, and then head and tail are null.
C19_IterationInOrder ==
    /\ pc = "list_iter" =>
          /\ Len(ll_ref.yielded) <= Len(ll_ref.snap)
          /\ ll_ref.yielded = SubSeq(ll_ref.snap, 1, Len(ll_ref.yielded))
          /\ ll_ret.val = Some(ll_ref.yielded[Len(ll_ref.yielded)])
    /\ pc = "list_done" =>
          /\ ll_ret.val = None
          /\ ll_ref.yielded = ll_ref.snap
          /\ ll.head = Null
          /\ ll.tail = Null

\* an iteration over three elements that were not inserted in list order
\* has ended
C19_Witness ==
    /\ pc = "list_done"
    /\ Len(ll_ref.snap) = 3
    /\ ll_ref.yielded = ll_ref.snap
    /\ \E i \in 1 .. 2 : ll_ref.snap[i] > ll_ref.snap[i + 1]


----------------------------------------------------------------------------
\* C20: dijkstra_bidir leaves its round loop, to return unreachable, only
\* when both the forward and the backward frontier are empty.
C20_LoopEndsWithBothEmpty ==
    (pc = "done" /\ b_from = "loop_end")
        => (HeapIsEmpty(prio_f) /\ HeapIsEmpty(prio_b))


----------------------------------------------------------------------------
\* C21: a round of dijkstra_bidir is one forward step, a termination check,
\* one backward step over the inverted graph and a second termination check,
\* in this order; a result of any of the four ends the search at once.
C21_RoundProtocol ==
    [][/\ pc = "b_while" => pc' \in {"b_fwd", "done"}
       /\ pc = "b_fwd" =>
             LET st == dijkstra_step(adj_list, goal, prio_f, dist_f)
             IN  /\ prio_f' = st.heap /\ dist_f' = st.dist
                 /\ prio_b' = prio_b /\ dist_b' = dist_b
                 /\ IF st.ret # None
                    THEN pc' = "done" /\ b_res' = st.ret
                    ELSE pc' = "b_chk1"
       /\ pc = "b_chk1" =>
             LET res == check_stop(dist_f, dist_b, prio_f, prio_b)
             IN  IF res # None
                 THEN pc' = "done" /\ b_res' = res
                 ELSE pc' = "b_bwd"
       /\ pc = "b_bwd" =>
             LET st == dijkstra_step(invert_adjecency_list(adj_list), start,
                                     prio_b, dist_b)
             IN  /\ prio_b' = st.heap /\ dist_b' = st.dist
                 /\ prio_f' = prio_f /\ dist_f' = dist_f
                 /\ IF st.ret # None
                    THEN pc' = "done" /\ b_res' = st.ret
                    ELSE pc' = "b_chk2"
       /\ pc = "b_chk2" =>
             LET res == check_stop(dist_f, dist_b, prio_f, prio_b)
             IN  IF res # None
                 THEN pc' = "done" /\ b_res' = res
                 ELSE pc' = "b_while"]_vars

\* a whole round went by without a result, its backward step having relaxed
\* an edge, and the next round is about to begin
C21_Witness ==
    /\ pc = "b_while"
    /\ step_popped # None
    /\ ~HeapIsEmpty(prio_b)
    /\ Cardinality({n \in Nodes : dist_b[n] # USIZE_MAX}) >= 2


----------------------------------------------------------------------------
\* C22: when the forward step of dijkstra_bidir pops the goal, or the
\* backward step pops the start, the search returns the popped cost at once,
\* without relaxing an edge, and that cost is the shortest distance from
\* start to goal.
C22_StepHitReturnsShortest ==
    [][/\ (pc = "b_fwd" /\ ~HeapIsEmpty(prio_f)
              /\ HeapPeek(prio_f).position = goal)
          => (/\ pc' = "done"
              /\ b_res' = Some(HeapPeek(prio_f).cost)
              /\ b_res' = RefShortest(adj_list, start, goal)
              /\ prio_f' = HeapPopRest(prio_f)
              /\ dist_f' = dist_f)
       /\ (pc = "b_bwd" /\ ~HeapIsEmpty(prio_b)
              /\ HeapPeek(prio_b).position = start)
          => (/\ pc' = "done"
              /\ b_res' = Some(HeapPeek(prio_b).cost)
              /\ b_res' = RefShortest(adj_list, start, goal)
              /\ prio_b' = HeapPopRest(prio_b)
              /\ dist_b' = dist_b)]_vars

\* the forward step popped the goal and the search returned its cost; the
\* popped node had an edge the step could have relaxed
C22_Witness ==
    /\ pc = "done"
    /\ b_from = "step_f"
    /\ step_popped # None
    /\ step_popped[1].position = goal
    /\ b_res = Some(step_popped[1].cost)
    /\ \E j \in 1 .. Len(adj_list[goal]) : adj_list[goal][j].node # goal


----------------------------------------------------------------------------
\* The least cost among the entries pending in frontier h.
MinPending(h) ==
    LET C == {x.cost : x \in BagToSet(h)}
    IN  CHOOSE c \in C : \A d \in C : c <= d

\* The totals dist_f[i] + dist_b[i] of the nodes known to both directions.
Candidates ==
    {dist_f[i] + dist_b[i] :
        i \in {n \in DOMAIN dist_f :
                  dist_f[n] # USIZE_MAX /\ dist_b[n] # USIZE_MAX}}

\* C23: the termination check compares each candidate total with the sum of
\* the least pending cost of the forward and of the backward frontier (not
\* with the forward one alone): it returns a candidate within that bound
\* when there is one and both frontiers hold an entry, and nothing
\* otherwise; it changes neither frontier and neither distance table.
C23_SymmetricBoundPeekOnly ==
    [][(pc \in {"b_chk1", "b_chk2"}) =>
        LET hit == /\ ~HeapIsEmpty(prio_f)
                   /\ ~HeapIsEmpty(prio_b)
                   /\ \E c \in Candidates :
                         c <= MinPending(prio_f) + MinPending(prio_b)
        IN  /\ UNCHANGED << prio_f, prio_b, dist_f, dist_b >>
            /\ hit <=> pc' = "done"
            /\ hit => \E c \in Candidates :
                         /\ c <= MinPending(prio_f) + MinPending(prio_b)
                         /\ b_res' = Some(c)]_vars

\* a check returned a total that is above the forward frontier's least
\* pending cost, and within the bound only with the backward one added
C23_Witness ==
    /\ pc = "done"
    /\ b_from \in {"check_f", "check_b"}
    /\ b_res # None
    /\ b_res[1] > MinPending(prio_f)
    /\ b_res[1] <= MinPending(prio_f) + MinPending(prio_b)


----------------------------------------------------------------------------
BidirSearching == pc \in {"b_while", "b_fwd", "b_chk1", "b_bwd", "b_chk2"}

\* C24: in dijkstra and in either direction of dijkstra_bidir no entry of
\* the distance table ever increases during the search, and the entry of a
\* node that was popped with a cost equal to its entry never changes again.
C24_DistMonotoneAndFinal ==
    [][/\ pc = "d_loop" =>
             /\ \A n \in DOMAIN dist : dist'[n] <= dist[n]
             /\ \A n \in settled.d : dist'[n] = dist[n]
       /\ BidirSearching =>
             /\ \A n \in DOMAIN dist_f : dist_f'[n] <= dist_f[n]
             /\ \A n \in settled.f : dist_f'[n] = dist_f[n]
             /\ \A n \in DOMAIN dist_b : dist_b'[n] <= dist_b[n]
             /\ \A n \in settled.b : dist_b'[n] = dist_b[n]]_vars

\* the backward direction went on after settling a second node, the forward
\* direction and dijkstra having settled nodes on the same input too
C24_Witness ==
    /\ pc = "b_chk2"
    /\ Cardinality(settled.b) >= 2
    /\ Cardinality(settled.f) >= 1
    /\ Cardinality(settled.d) >= 1


----------------------------------------------------------------------------
\* The edges of `edges` that relax when a node popped with cost c is expanded
\* over the table d: edge k relaxes when c + w is below the entry of its
\* target and below what every earlier edge to the same target offered.
RelaxingEdges(edges, c, d) ==
    {k \in DOMAIN edges :
        /\ c + edges[k].cost < d[edges[k].node]
        /\ \A j \in 1 .. (k - 1) :
              edges[j].node = edges[k].node
                  => c + edges[k].cost < c + edges[j].cost}

\* The table after the expansion: the last relaxing edge to a node sets it.
RelaxedDist(edges, c, d) ==
    LET R == RelaxingEdges(edges, c, d)
    IN  [n \in DOMAIN d |->
            IF \E k \in R : edges[k].node = n
            THEN LET k == CHOOSE k \in R :
                              /\ edges[k].node = n
                              /\ \A j \in R : edges[j].node = n => j <= k
                 IN  c + edges[k].cost
            ELSE d[n]]

\* The frontier after the expansion: one entry more for each relaxing edge.
RelaxedHeap(edges, c, d, rest) ==
    rest (+) SetToBag({State(c + edges[k].cost, edges[k].node) :
                          k \in RelaxingEdges(edges, c, d)})

\* A pop of frontier h that is expanded: not the target, not stale.
Expands(h, d, target) ==
    /\ ~HeapIsEmpty(h)
    /\ HeapPeek(h).position # target
    /\ HeapPeek(h).cost <= d[HeapPeek(h).position]

\* C25: when a non-stale node is expanded, each outgoing edge in turn sets
\* the entry of its target to popped cost + w and pushes (popped cost + w,
\* target) exactly when popped cost + w is below the entry; no other entry
\* and no other frontier element changes.  Self-loops, parallel edges and
\* zero-weight edges are no exception.
C25_RelaxExactlyWhenLower ==
    [][/\ (pc = "d_loop" /\ Expands(heap, dist, goal)) =>
             LET top == HeapPeek(heap)
                 es == adj_list[top.position]
             IN  /\ dist' = RelaxedDist(es, top.cost, dist)
                 /\ heap' = RelaxedHeap(es, top.cost, dist, HeapPopRest(heap))
       /\ (pc = "b_fwd" /\ Expands(prio_f, dist_f, goal)) =>
             LET top == HeapPeek(prio_f)
                 es == adj_list[top.position]
             IN  /\ dist_f' = RelaxedDist(es, top.cost, dist_f)
                 /\ prio_f' = RelaxedHeap(es, top.cost, dist_f,
                                          HeapPopRest(prio_f))
       /\ (pc = "b_bwd" /\ Expands(prio_b, dist_b, start)) =>
             LET top == HeapPeek(prio_b)
                 es == adj_list_inv[top.position]
             IN  /\ dist_b' = RelaxedDist(es, top.cost, dist_b)
                 /\ prio_b' = RelaxedHeap(es, top.cost, dist_b,
                                          HeapPopRest(prio_b))]_vars

\* dijkstra expanded a node with a self-loop, two parallel edges of which
\* the second is cheaper, and a zero-weight edge among its edges; both
\* parallel edges relaxed
C25_Witness ==
    /\ pc = "d_loop"
    /\ popped # None
    /\ popped[1].position # goal
    /\ LET es == adj_list[popped[1].position]
       IN  /\ \E j, k \in DOMAIN es :
                 /\ j < k
                 /\ es[j].node = es[k].node
                 /\ es[k].cost < es[j].cost
                 /\ es[k].node # popped[1].position
                 /\ dist[es[k].node] = popped[1].cost + es[k].cost
                 /\ State(popped[1].cost + es[j].cost, es[j].node)
                        \in BagToSet(heap)
           /\ \E k \in DOMAIN es : es[k].node = popped[1].position
           /\ \E k \in DOMAIN es : es[k].cost = 0


----------------------------------------------------------------------------
\* invert_adjecency_list applied to the graphs of the bounds and to the graph
\* of test_adjency_list_inversion.
InitInvOrder ==
    /\ adj_list \in Graphs \cup {ExampleGraph}
    /\ start = 0 /\ goal = 0 /\ mid = 0
    /\ pc = "i_call"
    /\ Blank
    /\ NoContainers

SpecInvOrder == InitInvOrder /\ [][NextInv]_vars

\* test_adjency_list_inversion: res
ExampleInverted ==
    [n \in 0 .. 4 |->
        CASE n = 0 -> << Edge(3, 7) >>
          [] n = 1 -> << Edge(0, 1), Edge(2, 1) >>
          [] n = 2 -> << Edge(0, 10) >>
          [] n = 3 -> << Edge(1, 2), Edge(2, 3) >>
          [] n = 4 -> << Edge(2, 1), Edge(3, 2) >>]

\* The places << u, k >> of the edges of adj that end in v.
EdgesInto(adj, v) ==
    {q \in UNION {{<< u, k >> : k \in DOMAIN adj[u]} : u \in DOMAIN adj} :
        adj[q[1]][q[2]].node = v}

\* Place p comes before place q: smaller source, or same source and earlier
\* in its list.
PlaceBefore(p, q) == p[1] < q[1] \/ (p[1] = q[1] /\ p[2] < q[2])

Inverted == pc \in {"i_once", "i_twice"}

\* C26: in the inverted list of every node v the flipped edges stand in
\* ascending order of their original source and, for one source, in the
\* order of that source's list; the example graph gives node 1 the list
\* [to 0 cost 1, to 2 cost 1] and in all the list the test asserts.
C26_InvertedOrder ==
    Inverted =>
        /\ \A v \in DOMAIN adj_list :
              LET P == EdgesInto(adj_list, v)
              IN  /\ Len(adj_list_inv[v]) = Cardinality(P)
                  /\ \A q \in P :
                        adj_list_inv[v][1 + Cardinality({p \in P : PlaceBefore(p, q)})]
                            = Edge(q[1], adj_list[q[1]][q[2]].cost)
        /\ adj_list = ExampleGraph =>
              /\ adj_list_inv[1] = << Edge(0, 1), Edge(2, 1) >>
              /\ adj_list_inv = ExampleInverted

\* the example graph was inverted
C26_Witness ==
    /\ Inverted
    /\ adj_list = ExampleGraph
    /\ adj_list_inv = ExampleInverted


----------------------------------------------------------------------------------------------------------------------------------------
\* The graphs the searches are run to their end on: as Graphs, with at most
\* LiveMaxEdges edges (enough for a cycle, a self-loop, a pair of parallel
\* edges, each with zero weights).
LiveMaxEdges == 2

LiveGraphs ==
    {BuildAdj(el) :
        el \in UNION {[1 .. k -> Nodes \X EdgeSet] : k \in 0 .. LiveMaxEdges}}

InitLive ==
    /\ adj_list \in LiveGraphs
    /\ start \in Nodes
    /\ goal \in Nodes
    /\ mid = start
    /\ pc = "d_call"
    /\ Blank
    /\ NoContainers

\* A call that has begun goes on until it returns: the program is sequential
\* and nothing else runs.
SpecLive == InitLive /\ [][Next]_vars /\ WF_vars(Next)

\* C27: dijkstra and dijkstra_bidir both return after finitely many pops,
\* on every graph of the bounds (cycles, self-loops, parallel edges and
\* zero-weight edges included) and for every start and goal.
C27_BothTerminate == <>(DijkstraReturned /\ BidirReturned)

\* both searches returned on a graph with a zero-weight cycle through the
\* start, the goal being another node
C27_Witness ==
    /\ DijkstraReturned
    /\ BidirReturned
    /\ start # goal
    /\ \E x \in Nodes \ {start} :
          /\ \E j \in DOMAIN adj_list[start] : adj_list[start][j] = Edge(x, 0)
          /\ \E j \in DOMAIN adj_list[x] : adj_list[x][j] = Edge(start, 0)


----------------------------------------------------------------------------
\* The total weights of the directed walks of adj from s to t with at most
\* as many edges as adj has nodes.
PathWeights(adj, s, t) ==
    {p[2] : p \in {q \in Walks(adj, {<< s, 0 >>}, VecLen(adj)) : q[1] = t}}

\* C28: during dijkstra_bidir every finite dist_f[i] is the weight of a path
\* from start to i and every finite dist_b[i] the weight of a path from i to
\* goal in the input graph; a returned cost is the weight of a path from
\* start to goal, hence not below the shortest distance.
C28_ReturnedIsPathWeight ==
    /\ (BidirSearching \/ BidirReturned) =>
          \A i \in DOMAIN adj_list :
              /\ dist_f[i] # USIZE_MAX
                    => dist_f[i] \in PathWeights(adj_list, start, i)
              /\ dist_b[i] # USIZE_MAX
                    => dist_b[i] \in PathWeights(adj_list, i, goal)
    /\ (BidirReturned /\ b_res # None) =>
          /\ b_res[1] \in PathWeights(adj_list, start, goal)
          /\ RefShortest(adj_list, start, goal) # None
          /\ b_res[1] >= RefShortest(adj_list, start, goal)[1]

\* a check returned the total through a node that is neither start nor goal
C28_Witness ==
    /\ BidirReturned
    /\ b_from \in {"check_f", "check_b"}
    /\ b_res # None
    /\ \E i \in Nodes \ {start, goal} :
          /\ dist_f[i] # USIZE_MAX /\ dist_b[i] # USIZE_MAX
          /\ dist_f[i] > 0 /\ dist_b[i] > 0
          /\ b_res = Some(dist_f[i] + dist_b[i])

====
